---- MODULE Spec2Model ----
(***************************************************************************)
(* Model of the UrlChecker component of talk-safe-guard                    *)
(* (src/unnamed/part_000): the rule-based phishing scorer analyzeUrl, the  *)
(* WHATWG URL parser it calls, and the component's checkUrl handler.       *)
(*                                                                         *)
(* Strings are TLA+ strings; TLC evaluates Len, \o, SubSeq, Head and Tail  *)
(* on them.  The input alphabet is: ASCII letters, the digits 1-9, and the *)
(* characters '.', '-', '/', ':', '?', '#' and space.  The URL parser is   *)
(* modelled for that alphabet (no '0' so no octal or hexadecimal IPv4      *)
(* parts, no '@' so no credentials, no '[' so no IPv6, no '%' so no        *)
(* percent-decoding, no '\', and no host label that starts with "xn--").   *)
(***************************************************************************)
EXTENDS Integers, Sequences, FiniteSets, TLC

VARIABLES
  inputUrl,    \* argument of the latest analyzeUrl call ("" before any call)
  analysis,    \* what that call returned (Null before any call)
  url,         \* useState('')      : the text field
  result,      \* useState(null)    : the displayed UrlCheckResult or Null
  isChecking,  \* useState(false)
  pending,     \* checkUrl invocations suspended at the await, oldest first,
               \* each holding the url its closure captured
  toast,       \* title of the latest toast ("" before any)
  calls        \* history: the [inputUrl, analysis] of every analyzeUrl call,
               \* in call order

vars == <<inputUrl, analysis, url, result, isChecking, pending, toast, calls>>

Null == [status |-> "null", score |-> 0, reasons |-> <<>>]

\* stands for "the call threw" where a returned value is recorded
Thrown == [status |-> "thrown", score |-> 0, reasons |-> <<>>]

(***************************************************************************)
(* JavaScript string operations used by the component.                     *)
(***************************************************************************)
charAt(s, i) == SubSeq(s, i, i)

startsWith(s, p) == Len(s) >= Len(p) /\ SubSeq(s, 1, Len(p)) = p

endsWith(s, p) == Len(s) >= Len(p) /\ SubSeq(s, Len(s) - Len(p) + 1, Len(s)) = p

includes(s, sub) ==
  \E i \in 1..(Len(s) - Len(sub) + 1) : SubSeq(s, i, i + Len(sub) - 1) = sub

\* index of the first occurrence of a character of the set cs in s, or 0
RECURSIVE indexOfAny(_, _, _)
indexOfAny(s, cs, i) ==
  IF i > Len(s) THEN 0
  ELSE IF charAt(s, i) \in cs THEN i
  ELSE indexOfAny(s, cs, i + 1)

\* String.prototype.split with a one-character separator
RECURSIVE split(_, _)

splitAt(s, sep, i) ==
  IF i = 0 THEN <<s>>
  ELSE <<SubSeq(s, 1, i - 1)>> \o split(SubSeq(s, i + 1, Len(s)), sep)

split(s, sep) == splitAt(s, sep, indexOfAny(s, {sep}, 1))

UpperCase == "ABCDEFGHIJKLMNOPQRSTUVWXYZ"
LowerCase == "abcdefghijklmnopqrstuvwxyz"

lowerAt(c, i) == IF i = 0 THEN c ELSE charAt(LowerCase, i)

toLowerChar(c) == lowerAt(c, indexOfAny(UpperCase, {c}, 1))

RECURSIVE toLowerCase(_)
toLowerCase(s) ==
  IF s = "" THEN "" ELSE toLowerChar(Head(s)) \o toLowerCase(Tail(s))

Digits == {"0", "1", "2", "3", "4", "5", "6", "7", "8", "9"}

isDigits(s) == \A i \in 1..Len(s) : charAt(s, i) \in Digits

\* String.prototype.trim, for the space character
RECURSIVE trimStart(_)
trimStart(s) == IF s # "" /\ Head(s) = " " THEN trimStart(Tail(s)) ELSE s

RECURSIVE trimEnd(_)
trimEnd(s) ==
  IF s # "" /\ charAt(s, Len(s)) = " " THEN trimEnd(SubSeq(s, 1, Len(s) - 1)) ELSE s

trim(s) == trimEnd(trimStart(s))

Min(a, b) == IF a <= b THEN a ELSE b

(***************************************************************************)
(* new URL(urlToCheck): the WHATWG URL parser, for a string that starts    *)
(* with "http://" or "https://" (analyzeUrl passes no other).  It returns  *)
(* [ok |-> FALSE] where the constructor throws a TypeError.                *)
(***************************************************************************)
AuthorityEnd == {"/", "?", "#"}

ForbiddenDomainChars ==
  {" ", "#", "/", ":", "<", ">", "?", "@", "[", "\\", "]", "^", "|", "%"}

RECURSIVE skipSlashes(_)
skipSlashes(s) == IF s # "" /\ Head(s) = "/" THEN skipSlashes(Tail(s)) ELSE s

RECURSIVE stripLeadingZeros(_)
stripLeadingZeros(s) ==
  IF s # "" /\ Head(s) = "0" THEN stripLeadingZeros(Tail(s)) ELSE s

digitValue(c) == indexOfAny("123456789", {c}, 1)

\* value of a string of at most 9 decimal digits
RECURSIVE parseDecimal(_)
parseDecimal(s) ==
  IF s = "" THEN 0
  ELSE parseDecimal(SubSeq(s, 1, Len(s) - 1)) * 10 + digitValue(charAt(s, Len(s)))

\* port state: digits only, and at most 65535
portInRange(q) == Len(q) <= 5 /\ parseDecimal(q) <= 65535

portOk(p) == isDigits(p) /\ portInRange(stripLeadingZeros(p))

\* the parts of a host, without the empty part a trailing dot leaves
dropTrailingEmpty(parts) ==
  IF Len(parts) > 1 /\ parts[Len(parts)] = ""
  THEN SubSeq(parts, 1, Len(parts) - 1) ELSE parts

hostParts(host) == dropTrailingEmpty(split(host, "."))

isNumber(part) == part # "" /\ isDigits(part)

lastOf(parts) == parts[Len(parts)]

\* "ends in a number": the last part is a non-empty string of digits
endsInNumber(host) == isNumber(lastOf(hostParts(host)))

Pow256(k) == CASE k = 0 -> 1 [] k = 1 -> 256 [] k = 2 -> 65536 [] OTHER -> 16777216

\* the k base-256 digits of v, most significant first
RECURSIVE octetsOf(_, _)
octetsOf(v, k) ==
  IF k = 0 THEN <<>> ELSE octetsOf(v \div 256, k - 1) \o <<v % 256>>

RECURSIVE joinDots(_)
joinDots(ns) ==
  IF Len(ns) = 1 THEN ToString(ns[1])
  ELSE ToString(ns[1]) \o "." \o joinDots(Tail(ns))

\* IPv4 parser and serializer (decimal parts of at most 9 digits)
ipv4FromNumbers(nums, n) ==
  IF \/ \E i \in 1..(n - 1) : nums[i] > 255
     \/ (n > 1 /\ nums[n] >= Pow256(5 - n))
  THEN [ok |-> FALSE, hostname |-> ""]
  ELSE [ok |-> TRUE,
        hostname |-> joinDots(SubSeq(nums, 1, n - 1) \o octetsOf(nums[n], 5 - n))]

ipv4FromParts(parts, n) ==
  IF n > 4 \/ \E i \in 1..n : ~isNumber(parts[i]) \/ Len(parts[i]) > 9
  THEN [ok |-> FALSE, hostname |-> ""]
  ELSE ipv4FromNumbers([i \in 1..n |-> parseDecimal(parts[i])], n)

ipv4Parse(host) == ipv4FromParts(hostParts(host), Len(hostParts(host)))

\* host parser for a special scheme: lower-cased by domain-to-ASCII
hostFromAscii(d) ==
  IF d = "" \/ \E i \in 1..Len(d) : charAt(d, i) \in ForbiddenDomainChars
  THEN [ok |-> FALSE, hostname |-> ""]
  ELSE IF endsInNumber(d) THEN ipv4Parse(d)
  ELSE [ok |-> TRUE, hostname |-> d]

hostParse(h) == hostFromAscii(toLowerCase(h))

\* path percent-encode set, on the model's alphabet: the space
RECURSIVE encodePath(_)
encodePath(s) ==
  IF s = "" THEN ""
  ELSE (IF Head(s) = " " THEN "%20" ELSE Head(s)) \o encodePath(Tail(s))

\* path state: segs[i..] appended to path, dot segments resolved
RECURSIVE pathSegments(_, _, _)
addSegment(path, seg, last) ==
  CASE seg = ".." -> (IF path = <<>> THEN path ELSE SubSeq(path, 1, Len(path) - 1))
                       \o (IF last THEN <<"">> ELSE <<>>)
    [] seg = "."  -> path \o (IF last THEN <<"">> ELSE <<>>)
    [] OTHER      -> Append(path, encodePath(seg))

pathSegments(segs, i, path) ==
  IF i > Len(segs) THEN path
  ELSE pathSegments(segs, i + 1, addSegment(path, segs[i], i = Len(segs)))

RECURSIVE serializePath(_)
serializePath(path) ==
  IF path = <<>> THEN "" ELSE "/" \o Head(path) \o serializePath(Tail(path))

\* s up to, and s from, position i; all of s and "" when i = 0
before(s, i) == IF i = 0 THEN s ELSE SubSeq(s, 1, i - 1)
from(s, i) == IF i = 0 THEN "" ELSE SubSeq(s, i, Len(s))

dropSlash(raw) == IF raw # "" /\ Head(raw) = "/" THEN Tail(raw) ELSE raw

\* the path of the URL record: the text between the authority and '?' or '#'
pathnameOf(after) ==
  serializePath(pathSegments(
    split(dropSlash(before(after, indexOfAny(after, {"?", "#"}, 1))), "/"), 1, <<>>))

urlRecord(host, portValid, after) ==
  IF ~host.ok \/ ~portValid
  THEN [ok |-> FALSE, hostname |-> "", pathname |-> ""]
  ELSE [ok |-> TRUE, hostname |-> host.hostname, pathname |-> pathnameOf(after)]

\* host state and port state: the authority is host, or host ':' port
parseAuthority(authority, c, after) ==
  urlRecord(hostParse(before(authority, c)),
            portOk(IF c = 0 THEN "" ELSE from(authority, c + 1)),
            after)

\* authority state: up to the first '/', '?' or '#'
parseAfterSlashes(rest, e) ==
  parseAuthority(before(rest, e), indexOfAny(before(rest, e), {":"}, 1), from(rest, e))

\* scheme state, then special-authority-(ignore-)slashes states
afterScheme(s) ==
  skipSlashes(IF startsWith(s, "https:") THEN SubSeq(s, 7, Len(s)) ELSE SubSeq(s, 6, Len(s)))

parseTrimmed(s) == parseAfterSlashes(afterScheme(s), indexOfAny(afterScheme(s), AuthorityEnd, 1))

URL(urlToCheck) == parseTrimmed(trim(urlToCheck))

(***************************************************************************)
(* The constant tables of the component.                                   *)
(***************************************************************************)
\* mutant: the keyword list without the brand name google
suspiciousKeywords_noGoogle ==
  <<"login", "verify", "update", "urgent", "suspend", "confirm", "security",
    "paypal", "amazon", "netflix", "microsoft", "facebook",
    "bank", "secure", "account", "expired", "limited", "restricted">>

suspiciousKeywords ==
  <<"login", "verify", "update", "urgent", "suspend", "confirm", "security",
    "paypal", "amazon", "netflix", "microsoft", "google", "facebook",
    "bank", "secure", "account", "expired", "limited", "restricted">>

legitimateDomains ==
  <<"login.microsoftonline.com", "accounts.google.com", "secure.paypal.com",
    "login.live.com">>

shorteners == <<"bit.ly", "tinyurl.com", "t.co", "short.link", "tiny.cc">>

commonBrands == <<"paypal", "amazon", "microsoft", "google", "apple", "netflix">>

(***************************************************************************)
(* analyzeUrl.  The accumulator acc = [riskScore, reasons] stands for the  *)
(* two locals of the function; each rule is one step over it, in the order *)
(* of the code.                                                            *)
(***************************************************************************)
\* mutant: the hostname must equal an allowlisted hostname
isLegitimateUse_exact(domain, keyword) ==
  \E i \in 1..Len(legitimateDomains) : domain = legitimateDomains[i]

isLegitimateUse(domain, keyword) ==
  \E i \in 1..Len(legitimateDomains) : includes(domain, legitimateDomains[i])

domainSuspicious(domain) ==
  \E i \in 1..Len(suspiciousKeywords) :
     /\ includes(domain, suspiciousKeywords[i])
     /\ ~isLegitimateUse(domain, suspiciousKeywords[i])

pathSuspicious(path) ==
  \E i \in 1..Len(suspiciousKeywords) : includes(path, suspiciousKeywords[i])

usesShortener(domain) ==
  \E i \in 1..Len(shorteners) : includes(domain, shorteners[i])

\* mutant: counts the hyphens, not the segments
hyphenPattern_hyphens(domain) == includes(domain, "-") /\ Len(split(domain, "-")) - 1 > 3

hyphenPattern(domain) == includes(domain, "-") /\ Len(split(domain, "-")) > 3

impersonates(domain, brand) ==
  /\ includes(domain, brand)
  /\ ~endsWith(domain, brand \o ".com")
  /\ ~endsWith(domain, brand \o ".net")

\* /\d+/ at position i of s: the position after the digits, or 0
RECURSIVE afterDigits(_, _)
afterDigits(s, i) ==
  IF i = 0 \/ i > Len(s) \/ charAt(s, i) \notin Digits THEN 0
  ELSE IF i + 1 > Len(s) \/ charAt(s, i + 1) \notin Digits THEN i + 1
  ELSE afterDigits(s, i + 1)

\* a '.' at position j of s: the position after it, or 0
afterDot(s, j) == IF j # 0 /\ j <= Len(s) /\ charAt(s, j) = "." THEN j + 1 ELSE 0

\* /\d+\./ at position i of s: the position after the dot, or 0
afterDigitsDot(s, i) == afterDot(s, afterDigits(s, i))

\* /^\d+\.\d+\.\d+\.\d+/.test(domain)
isIpAddress(domain) ==
  afterDigits(domain, afterDigitsDot(domain, afterDigitsDot(domain, afterDigitsDot(domain, 1)))) # 0

excessiveSubdomains(domain) == Len(split(domain, ".")) > 4

nonHttps(urlToCheck) == startsWith(urlToCheck, "http://")

\* if (cond) { riskScore += weight; reasons.push(reason) }
flag(acc, cond, weight, reason) ==
  IF cond
  THEN [riskScore |-> acc.riskScore + weight, reasons |-> Append(acc.reasons, reason)]
  ELSE acc

\* mutant: stops at the first brand that matches
RECURSIVE forEachBrand_first(_, _, _)
forEachBrand_first(acc, domain, i) ==
  IF i > Len(commonBrands) THEN acc
  ELSE IF impersonates(domain, commonBrands[i])
  THEN flag(acc, TRUE, 40, "Potentially impersonating " \o commonBrands[i])
  ELSE forEachBrand_first(acc, domain, i + 1)

\* commonBrands.forEach(brand => ...), from the i-th brand on
RECURSIVE forEachBrand(_, _, _)
forEachBrand(acc, domain, i) ==
  IF i > Len(commonBrands) THEN acc
  ELSE forEachBrand(flag(acc, impersonates(domain, commonBrands[i]), 40,
                         "Potentially impersonating " \o commonBrands[i]),
                    domain, i + 1)

\* mutant: riskScore lives outside the function and is not reset
emptyAcc_shared == [riskScore |-> analysis.score, reasons |-> <<>>]

\* const reasons: string[] = []; let riskScore = 0;
emptyAcc == [riskScore |-> 0, reasons |-> <<>>]

\* mutant: the checks chained with else-if, so that only the first counts
applyRules_elseIf(urlToCheck, domain, path) ==
  CASE domainSuspicious(domain) ->
         flag(emptyAcc, TRUE, 30, "Domain contains suspicious keywords")
    [] pathSuspicious(path) ->
         flag(emptyAcc, TRUE, 20, "URL path contains phishing-related terms")
    [] usesShortener(domain) -> flag(emptyAcc, TRUE, 25, "Uses URL shortening service")
    [] hyphenPattern(domain) ->
         flag(emptyAcc, TRUE, 15, "Domain has suspicious hyphen pattern")
    [] OTHER ->
         flag(flag(flag(forEachBrand(emptyAcc, domain, 1),
                        isIpAddress(domain), 35, "Uses IP address instead of domain name"),
                   excessiveSubdomains(domain), 20, "Excessive subdomains detected"),
              nonHttps(urlToCheck), 15, "Not using secure HTTPS connection")

\* the rules, lines 72-128
applyRules(urlToCheck, domain, path) ==
  LET a0 == emptyAcc
      a1 == flag(a0, domainSuspicious(domain), 30, "Domain contains suspicious keywords")
      a2 == flag(a1, pathSuspicious(path), 20, "URL path contains phishing-related terms")
      a3 == flag(a2, usesShortener(domain), 25, "Uses URL shortening service")
      a4 == flag(a3, hyphenPattern(domain), 15, "Domain has suspicious hyphen pattern")
      a5 == forEachBrand(a4, domain, 1)
      a6 == flag(a5, isIpAddress(domain), 35, "Uses IP address instead of domain name")
      a7 == flag(a6, excessiveSubdomains(domain), 20, "Excessive subdomains detected")
  IN  flag(a7, nonHttps(urlToCheck), 15, "Not using secure HTTPS connection")

\* mutant: a strict comparison at the upper threshold
statusOf_strict(riskScore) ==
  IF riskScore > 50 THEN "dangerous"
  ELSE IF riskScore >= 25 THEN "suspicious"
  ELSE "safe"

statusOf(riskScore) ==
  IF riskScore >= 50 THEN "dangerous"
  ELSE IF riskScore >= 25 THEN "suspicious"
  ELSE "safe"

\* mutant: no default reason
finalReasons_noDefault(status, reasons) ==
  CASE status = "dangerous"  -> <<"High risk of phishing">> \o reasons
    [] status = "suspicious" -> <<"Potential security concerns">> \o reasons
    [] OTHER -> reasons

\* mutant: the summary pushed at the end instead of unshifted
finalReasons_push(status, reasons) ==
  CASE status = "dangerous"  -> Append(reasons, "High risk of phishing")
    [] status = "suspicious" -> Append(reasons, "Potential security concerns")
    [] OTHER -> IF Len(reasons) = 0 THEN <<"No obvious red flags detected">> ELSE reasons

\* reasons.unshift(summary), or the default reason pushed on an empty list
finalReasons(status, reasons) ==
  CASE status = "dangerous"  -> <<"High risk of phishing">> \o reasons
    [] status = "suspicious" -> <<"Potential security concerns">> \o reasons
    [] OTHER -> IF Len(reasons) = 0 THEN <<"No obvious red flags detected">> ELSE reasons

\* mutant: modulo instead of clamp
clampScore_modulo(riskScore) == riskScore % 100

clampScore(riskScore) == Min(riskScore, 100)

\* the catch block
fallbackResult ==
  [status |-> "suspicious", score |-> 30,
   reasons |-> <<"Invalid URL format", "Could not properly analyze URL">>]

normalize(inputUrl_) ==
  IF ~startsWith(inputUrl_, "http://") /\ ~startsWith(inputUrl_, "https://")
  THEN "https://" \o inputUrl_ ELSE inputUrl_

\* lines 130-149: the status, the summary reason and the returned object
returnValue(acc, status) ==
  [status  |-> status,
   score   |-> clampScore(acc.riskScore),
   reasons |-> finalReasons(status, acc.reasons)]

classify(acc) == returnValue(acc, statusOf(acc.riskScore))

\* lines 67-149: [threw |-> TRUE] when new URL throws, else the value returned
analyzeParsed(urlToCheck, urlObj) ==
  IF ~urlObj.ok THEN [threw |-> TRUE, value |-> Null]
  ELSE [threw |-> FALSE,
        value |-> classify(applyRules(urlToCheck,
                                      toLowerCase(urlObj.hostname),
                                      toLowerCase(urlObj.pathname)))]

parseAndAnalyze(urlToCheck) == analyzeParsed(urlToCheck, URL(urlToCheck))

\* the try block
tryBlock(inputUrl_) == parseAndAnalyze(normalize(inputUrl_))

\* mutant: no catch, the exception reaches the caller
catch_rethrow(t) == t

\* try { ... } catch (error) { return fallback }
catch(t) == IF t.threw THEN [threw |-> FALSE, value |-> fallbackResult] ELSE t

\* [threw, value]: what a call of analyzeUrl does to its caller
analyzeUrlOutcome(inputUrl_) == catch(tryBlock(inputUrl_))

\* the value the caller gets, Thrown standing for an exception
outcomeValue(out) == IF out.threw THEN Thrown ELSE out.value

analyzeUrl(inputUrl_) == outcomeValue(analyzeUrlOutcome(inputUrl_))

(***************************************************************************)
(* The strings the model feeds to the program.                             *)
(***************************************************************************)
MaxHostTokens == 2
MaxPending == 2
MaxCalls == 3

Prefixes == {"", "http://"}

HostTokens ==
  {"paypal", "Google", "apple", ".com", "login", "accounts.google.com",
   "bit.ly", "x-y-z-", "192.168.1.1"}

Suffixes == {"", "/Login?x", " /"}

Scenarios ==
  {"https://www.google.com",
   "http://secure-login-verify-account.badsite.com",
   "http://192.168.1.1/login",
   "https://paypal-secure.verify-payments.net",
   "http://",
   "https://",
   " ",
   "paypal.google.apple",
   "https://example.com",
   "https://example.com?login",
   "a.com/x/../verify/.",
   "a.com/verify/..",
   "login.live.com:443/a b",
   "a.com:99999",
   "a.com:8x",
   "a..b",
   "foo.1",
   "1.2.3.4.5",
   "tinyurl.com/t.co",
   "https:///netflix.net//",
   "HTTP://paypal.com/login",
   "HTTP://example.com",
   "Apple.COM/Account",
   "https://login.microsoftonline.com",
   "https://accounts.google.com",
   "https://secure.paypal.com",
   "https://login.live.com",
   "https://login.live.com/account",
   "https://my-paypal-login.live.com.example.org"}

RECURSIVE Hosts(_)
Hosts(k) ==
  IF k = 0 THEN {""}
  ELSE LET H == Hosts(k - 1) IN H \cup {h \o t : h \in H, t \in HostTokens}

AnalyzeInputs ==
  Scenarios \cup {p \o h \o s : p \in Prefixes, h \in Hosts(MaxHostTokens), s \in Suffixes}

\* what the user types into the text field
TypedInputs == {"", " ", "http://", "https://www.google.com"}

(***************************************************************************)
(* analyzeUrl on its own: one call on any input string.                    *)
(***************************************************************************)
InitAnalyze ==
  /\ inputUrl \in AnalyzeInputs
  /\ analysis = Null
  /\ url = ""
  /\ result = Null
  /\ isChecking = FALSE
  /\ pending = <<>>
  /\ toast = ""
  /\ calls = <<>>

CallAnalyzeUrl ==
  /\ analysis = Null
  /\ analysis' = analyzeUrl(inputUrl)
  /\ calls' = Append(calls, [inputUrl |-> inputUrl, analysis |-> analysis'])
  /\ UNCHANGED <<inputUrl, url, result, isChecking, pending, toast>>

NextAnalyze == CallAnalyzeUrl

SpecAnalyze == InitAnalyze /\ [][NextAnalyze]_vars

(***************************************************************************)
(* The UrlChecker component.                                               *)
(***************************************************************************)
Init ==
  /\ inputUrl = ""
  /\ analysis = Null
  /\ url = ""
  /\ result = Null
  /\ isChecking = FALSE
  /\ pending = <<>>
  /\ toast = ""
  /\ calls = <<>>

\* onChange={(e) => setUrl(e.target.value)}
setUrl ==
  /\ \E v \in TypedInputs : url' = v
  /\ UNCHANGED <<inputUrl, analysis, result, isChecking, pending, toast, calls>>

\* checkUrl up to its await: the toast and early return, or the two setters
\* and the timer
checkUrl ==
  IF trim(url) = ""
  THEN /\ toast' = "URL Required"
       /\ UNCHANGED <<inputUrl, analysis, url, result, isChecking, pending, calls>>
  ELSE /\ Len(pending) < MaxPending
       /\ Len(calls) + Len(pending) < MaxCalls
       /\ isChecking' = TRUE
       /\ result' = Null
       /\ pending' = Append(pending, url)
       /\ UNCHANGED <<inputUrl, analysis, url, toast, calls>>

\* <Button onClick={checkUrl} disabled={isChecking}>
clickCheck == ~isChecking /\ checkUrl

\* onKeyPress={(e) => e.key === 'Enter' && checkUrl()}
pressEnter == TRUE /\ checkUrl

\* checkUrl after its await: the 1500 ms timer of the oldest pending call fires
checkUrlResume ==
  /\ pending # <<>>
  /\ inputUrl' = Head(pending)
  /\ analysis' = analyzeUrl(Head(pending))
  /\ calls' = Append(calls, [inputUrl |-> inputUrl', analysis |-> analysis'])
  /\ IF analysis' = Thrown
     THEN toast' = "Error" /\ UNCHANGED result
     ELSE result' = analysis' /\ UNCHANGED toast
  /\ isChecking' = FALSE
  /\ pending' = Tail(pending)
  /\ UNCHANGED url

Next == setUrl \/ clickCheck \/ pressEnter \/ checkUrlResume

Spec == Init /\ [][Next]_vars

(***************************************************************************)
(* What the claims speak of, stated on the input string of a call.         *)
(***************************************************************************)
\* a call of analyzeUrl has returned (or thrown)
called == analysis # Null

parsedUrl(u) == URL(normalize(u))
parses(u) == parsedUrl(u).ok
hostnameOf(urlObj) == toLowerCase(urlObj.hostname)
pathnameLower(urlObj) == toLowerCase(urlObj.pathname)
domainOf(u) == hostnameOf(parsedUrl(u))
pathOf(u) == pathnameLower(parsedUrl(u))

keywordsIn(str) ==
  {i \in 1..Len(suspiciousKeywords) : includes(str, suspiciousKeywords[i])}

onAllowlist(d) == \E i \in 1..Len(legitimateDomains) : includes(d, legitimateDomains[i])

\* brand b occurs in the hostname, which ends in neither b.com nor b.net
brandFires(d, b) ==
  includes(d, b) /\ ~endsWith(d, b \o ".com") /\ ~endsWith(d, b \o ".net")

brandsFired(d) == {i \in 1..Len(commonBrands) : brandFires(d, commonBrands[i])}

\* the conditions of the rule table, on the hostname d, the path p and the
\* normalized string n
rule1(d) == keywordsIn(d) # {} /\ ~onAllowlist(d)
rule2(p) == keywordsIn(p) # {}
rule3(d) == \E i \in 1..Len(shorteners) : includes(d, shorteners[i])
rule4(d) == Len(split(d, "-")) > 3
rule6(d) == isIpAddress(d)
rule7(d) == Len(split(d, ".")) > 4
rule8(n) == startsWith(n, "http://")

b2n(cond) == IF cond THEN 1 ELSE 0

\* the weight of the rules other than rule 5
otherWeightOf(n, d, p) ==
  30 * b2n(rule1(d)) + 20 * b2n(rule2(p)) + 25 * b2n(rule3(d)) + 15 * b2n(rule4(d))
  + 35 * b2n(rule6(d)) + 20 * b2n(rule7(d)) + 15 * b2n(rule8(n))

weightOf(n, d, p) == otherWeightOf(n, d, p) + 40 * Cardinality(brandsFired(d))

only(cond, reason) == IF cond THEN <<reason>> ELSE <<>>

RECURSIVE brandReasons(_, _)
brandReasons(d, i) ==
  IF i > Len(commonBrands) THEN <<>>
  ELSE only(brandFires(d, commonBrands[i]), "Potentially impersonating " \o commonBrands[i])
       \o brandReasons(d, i + 1)

\* the reason texts of the fired rules, in rule-table order
reasonsOf(n, d, p) ==
  only(rule1(d), "Domain contains suspicious keywords")
  \o only(rule2(p), "URL path contains phishing-related terms")
  \o only(rule3(d), "Uses URL shortening service")
  \o only(rule4(d), "Domain has suspicious hyphen pattern")
  \o brandReasons(d, 1)
  \o only(rule6(d), "Uses IP address instead of domain name")
  \o only(rule7(d), "Excessive subdomains detected")
  \o only(rule8(n), "Not using secure HTTPS connection")

otherWeightParsed(n, urlObj) == otherWeightOf(n, hostnameOf(urlObj), pathnameLower(urlObj))
weightParsed(n, urlObj) == weightOf(n, hostnameOf(urlObj), pathnameLower(urlObj))
reasonsParsed(n, urlObj) == reasonsOf(n, hostnameOf(urlObj), pathnameLower(urlObj))

\* for an input that parses
weightSum(u) == weightParsed(normalize(u), parsedUrl(u))
otherRulesWeight(u) == otherWeightParsed(normalize(u), parsedUrl(u))
ruleReasons(u) == reasonsParsed(normalize(u), parsedUrl(u))
noRuleFires(u) == ruleReasons(u) = <<>>

clamped(w) == IF w > 100 THEN 100 ELSE w

(***************************************************************************)
(* C1: every result of analyzeUrl has an integer score in 0..100; on the   *)
(* normal path it is the accumulated rule weight clamped to 100 (a weight  *)
(* above 100 gives 100, not the weight modulo 100), and on the             *)
(* parse-failure path it is 30.                                            *)
(***************************************************************************)
C1_ScoreInRange ==
  called =>
    /\ analysis.score \in 0..100
    /\ IF parses(inputUrl)
       THEN weightSum(inputUrl) > 100 => analysis.score = 100
       ELSE analysis.score = 30

C1_Witness == called /\ parses(inputUrl) /\ weightSum(inputUrl) > 100 /\ analysis.score = 100

(***************************************************************************)
(* C2: on both paths the status is decided by the returned score alone:    *)
(* dangerous iff score >= 50, suspicious iff 25 <= score < 50, safe iff    *)
(* score < 25; the classification maps 24, 25, 49, 50 to safe, suspicious, *)
(* suspicious, dangerous.                                                  *)
(***************************************************************************)
C2_StatusFromScore ==
  /\ called =>
       /\ analysis.status = "dangerous" <=> analysis.score >= 50
       /\ analysis.status = "suspicious" <=> (25 <= analysis.score /\ analysis.score < 50)
       /\ analysis.status = "safe" <=> analysis.score < 25
  /\ <<statusOf(24), statusOf(25), statusOf(49), statusOf(50)>>
       = <<"safe", "suspicious", "suspicious", "dangerous">>

C2_Witness == called /\ parses(inputUrl) /\ analysis.score = 50 /\ analysis.status = "dangerous"

(***************************************************************************)
(* C3: the reasons list of every result is non-empty; when no rule fires   *)
(* (and so the status is safe) it is exactly the one default reason.       *)
(***************************************************************************)
C3_ReasonsNonEmpty ==
  called =>
    /\ Len(analysis.reasons) > 0
    /\ (parses(inputUrl) /\ noRuleFires(inputUrl)) =>
         /\ analysis.status = "safe"
         /\ analysis.reasons = <<"No obvious red flags detected">>

C3_Witness ==
  /\ called /\ parses(inputUrl) /\ noRuleFires(inputUrl)
  /\ analysis.reasons = <<"No obvious red flags detected">>

(***************************************************************************)
(* C4: analyzeUrl never throws to its caller; whenever the normalized      *)
(* string does not parse as a URL it returns the fixed fallback: status    *)
(* suspicious, score 30 and the two diagnostic reasons, nothing else.      *)
(***************************************************************************)
C4_FallbackOnParseFailure ==
  called =>
    /\ analysis # Thrown
    /\ ~parses(inputUrl) =>
         analysis = [status |-> "suspicious", score |-> 30,
                     reasons |-> <<"Invalid URL format", "Could not properly analyze URL">>]

C4_Witness ==
  /\ called /\ inputUrl \in {"http://", ""} /\ ~parses(inputUrl)
  /\ analysis.status = "suspicious" /\ analysis.score = 30
C6_GoogleIsSafe ==
  (called /\ inputUrl = "https://www.google.com") =>
     analysis = [status |-> "safe", score |-> 0,
                 reasons |-> <<"No obvious red flags detected">>]

(***************************************************************************)
(* C7: on the normal path the score is min(100, 30 r1 + 20 r2 + 25 r3 +    *)
(* 15 r4 + 40 k + 35 r6 + 20 r7 + 15 r8): each of the rules 1-4 and 6-8    *)
(* counts at most once however many keywords or shorteners match, k is the *)
(* number of brands rule 5 holds for, and no rule depends on another.      *)
(***************************************************************************)
C7_ScoreIsClampedSum ==
  (called /\ parses(inputUrl)) => analysis.score = clamped(weightSum(inputUrl))

C7_Witness ==
  /\ called /\ parses(inputUrl)
  /\ Cardinality(keywordsIn(domainOf(inputUrl))) >= 2
  /\ rule1(domainOf(inputUrl)) /\ rule2(pathOf(inputUrl))
  /\ Cardinality(brandsFired(domainOf(inputUrl))) = 1
  /\ analysis.score = 90

(***************************************************************************)
(* C8: on the normal path the reasons are the reason texts of the fired    *)
(* rules in rule-table order (rule 5 once per matching brand, in brand     *)
(* order), with the one summary string at index 0 when the status is       *)
(* dangerous or suspicious and none when it is safe; the default reason    *)
(* appears iff no rule fired.                                              *)
(***************************************************************************)
C8_ReasonsInRuleOrder ==
  (called /\ parses(inputUrl)) =>
     /\ analysis.reasons =
          CASE analysis.status = "dangerous" ->
                 <<"High risk of phishing">> \o ruleReasons(inputUrl)
            [] analysis.status = "suspicious" ->
                 <<"Potential security concerns">> \o ruleReasons(inputUrl)
            [] OTHER ->
                 IF noRuleFires(inputUrl) THEN <<"No obvious red flags detected">>
                 ELSE ruleReasons(inputUrl)
     /\ (\E i \in 1..Len(analysis.reasons) :
            analysis.reasons[i] = "No obvious red flags detected")
          <=> noRuleFires(inputUrl)

C8_Witness ==
  /\ called /\ parses(inputUrl)
  /\ analysis.status = "dangerous"
  /\ Cardinality(brandsFired(domainOf(inputUrl))) >= 2
  /\ rule2(pathOf(inputUrl)) /\ rule8(normalize(inputUrl))
  /\ Len(analysis.reasons) >= 5

(***************************************************************************)
(* C9: for "http://secure-login-verify-account.badsite.com" exactly three  *)
(* rules fire: rule 1 once (+30, though four keywords match), rule 4 (+15, *)
(* the hostname splits on hyphens into 4 segments) and rule 8 (+15), so    *)
(* the score is 60 and the status dangerous.                               *)
(***************************************************************************)
C9_HyphenScenario ==
  (called /\ inputUrl = "http://secure-login-verify-account.badsite.com") =>
     /\ Cardinality(keywordsIn(domainOf(inputUrl))) = 4
     /\ Len(split(domainOf(inputUrl), "-")) = 4
     /\ analysis = [status |-> "dangerous", score |-> 60,
                    reasons |-> <<"High risk of phishing",
                                  "Domain contains suspicious keywords",
                                  "Domain has suspicious hyphen pattern",
                                  "Not using secure HTTPS connection">>]

C9_Witness ==
  /\ called /\ inputUrl = "http://secure-login-verify-account.badsite.com"
  /\ analysis.score = 60

\* the positions of the rule-5 reasons in a reasons list
impersonationReasons(reasons) ==
  {i \in 1..Len(reasons) :
     \E b \in 1..Len(commonBrands) :
        reasons[i] = "Potentially impersonating " \o commonBrands[b]}

(***************************************************************************)
(* C10: rule 5 is cumulative: a hostname that contains j of the six brand  *)
(* names without ending in the brand's .com or .net form gets 40 j added   *)
(* and j reasons "Potentially impersonating {brand}", one per matching     *)
(* brand; two matching brands give status dangerous, three or more the     *)
(* clamped score 100.                                                      *)
(***************************************************************************)
C10_BrandRuleCumulative ==
  (called /\ parses(inputUrl)) =>
     LET d == domainOf(inputUrl)
         j == Cardinality(brandsFired(d))
     IN  /\ Cardinality(impersonationReasons(analysis.reasons)) = j
         /\ \A b \in 1..Len(commonBrands) :
               brandFires(d, commonBrands[b]) <=>
                 \E i \in 1..Len(analysis.reasons) :
                    analysis.reasons[i] = "Potentially impersonating " \o commonBrands[b]
         /\ analysis.score = clamped(otherRulesWeight(inputUrl) + 40 * j)
         /\ j >= 2 => analysis.status = "dangerous"
         /\ j >= 3 => analysis.score = 100

C10_Witness ==
  /\ called /\ parses(inputUrl)
  /\ Cardinality(brandsFired(domainOf(inputUrl))) = 2
  /\ analysis.score = 80
  /\ Cardinality(impersonationReasons(analysis.reasons)) = 2

\* the reason text occurs in the reasons list
hasReason(reasons, text) == \E i \in 1..Len(reasons) : reasons[i] = text

\* keyword k, found in hostname d, is exempted from rule 1: d contains an
\* allowlisted hostname as a substring
exemptedFor(d, k) == includes(d, suspiciousKeywords[k]) /\ onAllowlist(d)

(***************************************************************************)
(* C11: rule 1 fires iff some keyword occurs in the hostname and is not    *)
(* exempted, a keyword being exempted only when the hostname contains an   *)
(* allowlisted hostname as a substring; rule 2 (path keywords) fires       *)
(* whenever a keyword occurs in the path, allowlisted hostname or not.     *)
(***************************************************************************)
C11_AllowlistExemptsRule1Only ==
  (called /\ parses(inputUrl)) =>
     /\ hasReason(analysis.reasons, "Domain contains suspicious keywords")
          <=> \E k \in keywordsIn(domainOf(inputUrl)) : ~exemptedFor(domainOf(inputUrl), k)
     /\ hasReason(analysis.reasons, "URL path contains phishing-related terms")
          <=> keywordsIn(pathOf(inputUrl)) # {}

C11_Witness ==
  /\ called /\ parses(inputUrl)
  /\ keywordsIn(domainOf(inputUrl)) # {}
  /\ onAllowlist(domainOf(inputUrl))
  /\ \A i \in 1..Len(legitimateDomains) : domainOf(inputUrl) # legitimateDomains[i]
  /\ keywordsIn(pathOf(inputUrl)) # {}
  /\ ~hasReason(analysis.reasons, "Domain contains suspicious keywords")
  /\ hasReason(analysis.reasons, "URL path contains phishing-related terms")

\* the brands other than apple that rule 5 fires for on hostname d
keywordBrandsFired(d) == {i \in brandsFired(d) : commonBrands[i] # "apple"}

\* the result of a call in which rule 5 fired once and nothing else did
brandHitAlone(res) ==
  /\ res.score = 40
  /\ res.status = "suspicious"
  /\ Len(res.reasons) = 2
  /\ impersonationReasons(res.reasons) = {2}

(***************************************************************************)
(* C12: whenever rule 5 fires for a brand other than apple and the         *)
(* hostname contains none of the four allowlisted hostnames, rule 1 fires  *)
(* too, so the score is at least 70 and the status dangerous; a rule-5 hit *)
(* alone (score 40, suspicious) occurs only for the brand apple or for a   *)
(* hostname that contains an allowlisted hostname.                         *)
(***************************************************************************)
C12_BrandHitBringsKeywordHit ==
  (called /\ parses(inputUrl)) =>
     /\ (keywordBrandsFired(domainOf(inputUrl)) # {} /\ ~onAllowlist(domainOf(inputUrl))) =>
          /\ hasReason(analysis.reasons, "Domain contains suspicious keywords")
          /\ analysis.score >= 70
          /\ analysis.status = "dangerous"
     /\ brandHitAlone(analysis) =>
          \/ analysis.reasons[2] = "Potentially impersonating apple"
          \/ onAllowlist(domainOf(inputUrl))

C12_Witness ==
  /\ called /\ parses(inputUrl)
  /\ keywordBrandsFired(domainOf(inputUrl)) # {}
  /\ Cardinality(brandsFired(domainOf(inputUrl))) = 1
  /\ ~onAllowlist(domainOf(inputUrl))
  /\ analysis.score = 70
  /\ analysis.status = "dangerous"

(***************************************************************************)
(* C13: each of the four allowlisted hostnames, given as                   *)
(* "https://<hostname>" with no path, is classified safe with a score      *)
(* below 25.                                                               *)
(***************************************************************************)
C13_AllowlistedHostsAreSafe ==
  (called /\ inputUrl \in {"https://login.microsoftonline.com",
                           "https://accounts.google.com",
                           "https://secure.paypal.com",
                           "https://login.live.com"}) =>
     /\ analysis.status = "safe"
     /\ analysis.score < 25

(***************************************************************************)
(* C14: in the component, isChecking is true whenever a checkUrl           *)
(* invocation is pending between its start and its completion, so at most  *)
(* one check is in flight and a result is displayed (result non-null with  *)
(* isChecking false) only when no check is pending.                        *)
(***************************************************************************)
C14_OneCheckInFlight ==
  /\ pending # <<>> => isChecking
  /\ Len(pending) <= 1
  /\ (result # Null /\ ~isChecking) => pending = <<>>

====
